---- MODULE Spec2Model ----
(***************************************************************************)
(* Booking service (FastAPI + psycopg2): POST /booking, GET /event/{id},   *)
(* GET /events, GET /booking/{id} over a PostgreSQL store reached through  *)
(* a SimpleConnectionPool.  Each request handler is a process; the store   *)
(* is modelled at READ COMMITTED: a statement sees the committed rows plus *)
(* the pending writes of its own connection's transaction, an UPDATE       *)
(* waits for the row lock, an INSERT on a unique key waits for an          *)
(* in-flight insert of the same key.                                       *)
(***************************************************************************)
EXTENDS Integers, Sequences, FiniteSets, TLC

\* ------------------------------------------------------------- bounds
NProcs == 2          \* concurrent request handlers
NEvents == 2         \* rows of app.events
EventTotal == 2      \* total_ticket_amount of every event
MaxTickets == 2      \* largest number_of_tickets requested
MaxFaults == 1       \* infrastructure failures injected in one run

\* ---------------------------------------------------- program constants
minconn == 1
maxconn == 5

Procs == 1..NProcs
Events == 1..NEvents
ConnIds == 1..maxconn
EventIdInputs == 0..(NEvents + 1)     \* 0: not positive; NEvents+1: no such row
TicketInputs == (-1)..MaxTickets
Emails == {"e1", "e2"}                \* e1 is registered, e2 is new
EmailInputs == Emails \cup {"bad"}    \* "bad" does not match the email pattern
NULL == 0

VARIABLES
    events,        \* app.events, committed: event_id -> row
    users,         \* app.users, committed: set of rows
    bookings,      \* app.bookings, committed: set of rows
    user_seq,      \* next value of the user_id sequence
    booking_seq,   \* next value of the booking_id sequence
    conn,          \* connection id -> server session (transaction state)
    pool,          \* POOL._pool: idle connections, a stack
    used,          \* POOL._used: borrowed connections
    pc,            \* position of each request handler
    op,            \* the endpoint a handler serves
    req,           \* its request
    db,            \* the connection its DatabaseConnection holds (0: none)
    errors,        \* ValueErrors collected by the request validators
    exc,           \* the exception in flight
    http,          \* the response status
    ret,           \* the value returned on success
    cur,           \* what the cursor's fetch gives
    faults,        \* infrastructure failures injected so far
    conn_of,       \* history: the last connection the handler borrowed
    alloc          \* history: ids the handler's inserts drew

vars == <<events, users, bookings, user_seq, booking_seq, conn, pool, used,
          pc, op, req, db, errors, exc, http, ret, cur, faults, conn_of, alloc>>

store == <<events, users, bookings>>
seqs == <<user_seq, booking_seq>>
local == <<op, req, errors, ret, cur, alloc>>

\* ------------------------------------------------------------ helpers
RECURSIVE SumTickets(_)
SumTickets(S) ==
    IF S = {} THEN 0
    ELSE LET b == CHOOSE x \in S : TRUE
         IN b.number_of_tickets + SumTickets(S \ {b})

Last(s) == s[Len(s)]
Front(s) == SubSeq(s, 1, Len(s) - 1)

\* ------------------------------------------------------------ sessions
NoTx == [status |-> "idle", upd |-> {}, insU |-> {}, updU |-> {}, insB |-> {}]
Closed == [status |-> "closed", upd |-> {}, insU |-> {}, updU |-> {}, insB |-> {}]

InitUsers ==
    {[user_id |-> 1, email |-> "e1",
      first_name |-> <<"n", 0>>, last_name |-> <<"n", 0>>,
      password |-> "hash", active |-> TRUE]}

Init ==
    /\ events = [e \in Events |->
                    [total_ticket_amount |-> EventTotal,
                     available_tickets |-> EventTotal]]
    /\ users = InitUsers
    /\ bookings = {}
    /\ user_seq = 2
    /\ booking_seq = 1
    /\ conn = [c \in ConnIds |-> IF c <= minconn THEN NoTx ELSE Closed]
    /\ pool = [i \in 1..minconn |-> i]
    /\ used = {}
    /\ pc = [p \in Procs |-> "idle"]
    /\ op = [p \in Procs |-> "none"]
    /\ req = [p \in Procs |-> <<>>]
    /\ db = [p \in Procs |-> 0]
    /\ errors = [p \in Procs |-> FALSE]
    /\ exc = [p \in Procs |-> "none"]
    /\ http = [p \in Procs |-> "none"]
    /\ ret = [p \in Procs |-> NULL]
    /\ cur = [p \in Procs |-> {}]
    /\ faults = 0
    /\ conn_of = [p \in Procs |-> 0]
    /\ alloc = [p \in Procs |-> [user_id |-> NULL, booking_id |-> NULL]]

\* ------------------------------------------------- request validation
Name(p) == <<"n", p>>                 \* every client sends its own name

\* CreateBooking.is_email: the pattern matches or it does not
is_email(value) == value \in Emails

\* the test on number_of_tickets lost
is_number_of_tickets_any(value) == TRUE

\* CreateBooking.is_number_of_tickets: ValueError when value <= 0
is_number_of_tickets(value) == value > 0

\* CreateBooking.is_event_id, first test: ValueError when value <= 0
is_event_id_positive(value) == value > 0

\* ------------------------------------------------------ the connection pool
PoolExhausted == pool = <<>> /\ Cardinality(used) = maxconn

\* POOL.getconn(): the idle connection on top of the stack, else a new one
GetConn ==
    IF pool # <<>> THEN Last(pool)
    ELSE CHOOSE c \in ConnIds :
            /\ conn[c].status = "closed"
            /\ \A d \in ConnIds : conn[d].status = "closed" => c <= d

\* the connection goes back as it is
PutConnSessionAsIs(s) == s

\* POOL.putconn(conn) keeps the connection: a transaction still open or
\* failed is rolled back first
PutConnSession(s) == IF s.status = "idle" THEN s ELSE NoTx

\* an __enter__ that reports exhaustion as a rejection of the request
EnterPoolErrorAsRejection(p, to, fail) ==
    IF PoolExhausted
    THEN /\ exc' = [exc EXCEPT ![p] = "BookingError"]
         /\ http' = [http EXCEPT ![p] = "422"]
         /\ pc' = [pc EXCEPT ![p] = fail]
         /\ UNCHANGED <<conn, pool, used, db, conn_of>>
    ELSE LET c == GetConn IN
         /\ pool' = IF pool # <<>> THEN Front(pool) ELSE pool
         /\ used' = used \cup {c}
         /\ conn' = IF conn[c].status = "closed"
                    THEN [conn EXCEPT ![c] = NoTx] ELSE conn
         /\ db' = [db EXCEPT ![p] = c]
         /\ conn_of' = [conn_of EXCEPT ![p] = c]
         /\ pc' = [pc EXCEPT ![p] = to]
         /\ UNCHANGED <<exc, http>>

\* DatabaseConnection.__enter__: borrow a connection, open a cursor
Enter(p, to, fail) ==
    IF PoolExhausted
    THEN /\ exc' = [exc EXCEPT ![p] = "PoolError"]
         /\ http' = [http EXCEPT ![p] = "500"]
         /\ pc' = [pc EXCEPT ![p] = fail]
         /\ UNCHANGED <<conn, pool, used, db, conn_of>>
    ELSE LET c == GetConn IN
         /\ pool' = IF pool # <<>> THEN Front(pool) ELSE pool
         /\ used' = used \cup {c}
         /\ conn' = IF conn[c].status = "closed"
                    THEN [conn EXCEPT ![c] = NoTx] ELSE conn
         /\ db' = [db EXCEPT ![p] = c]
         /\ conn_of' = [conn_of EXCEPT ![p] = c]
         /\ pc' = [pc EXCEPT ![p] = to]
         /\ UNCHANGED <<exc, http>>

\* DatabaseConnection.__exit__: close the cursor, give the connection back.
\* The pool keeps at most minconn idle connections and closes the others;
\* closing a session ends its transaction without committing.
ExitConn(p) ==
    LET c == db[p] IN
    /\ IF Len(pool) < minconn
       THEN /\ pool' = Append(pool, c)
            /\ conn' = [conn EXCEPT ![c] = PutConnSession(conn[c])]
       ELSE /\ pool' = pool
            /\ conn' = [conn EXCEPT ![c] = Closed]
    /\ used' = used \ {c}
    /\ db' = [db EXCEPT ![p] = 0]

\* ------------------------------------------------------------ the store
\* what a statement run on connection c sees
LockedBy(c, e) == \E u \in conn[c].upd : u.event_id = e
\* a read that also sees what other transactions have not committed
AvailViewDirty(c, e) ==
    IF \E d \in ConnIds : \E u \in conn[d].upd : u.event_id = e
    THEN (CHOOSE u \in UNION {conn[d].upd : d \in ConnIds} :
              u.event_id = e).available_tickets
    ELSE events[e].available_tickets

AvailView(c, e) ==
    IF LockedBy(c, e)
    THEN (CHOOSE u \in conn[c].upd : u.event_id = e).available_tickets
    ELSE events[e].available_tickets
\* committed rows, with the versions session s has written in their place
Overlay(rows, s) ==
    {u \in rows : \A v \in s.updU : v.user_id # u.user_id}
        \cup s.updU \cup s.insU
UsersView(c) == Overlay(users, conn[c])
BookingsView(c) == bookings \cup conn[c].insB

\* an update that never waits
RowLockedByOtherNever(c, e) == FALSE

\* the UPDATE waits while another transaction holds the event's row lock
RowLockedByOther(c, e) == \E d \in ConnIds \ {c} : LockedBy(d, e)

\* an insert that never waits
EmailBusyNever(c, email) == FALSE

\* the INSERT on unique_email waits for an in-flight insert of the same email
EmailBusy(c, email) ==
    \E d \in ConnIds \ {c} : \E u \in conn[d].insU : u.email = email

\* an INSERT on unique_email also waits while another transaction has an
\* uncommitted update of the row with that email
UserRowLockedByOther(c, email) ==
    \E d \in ConnIds \ {c} : \E u \in conn[d].updU : u.email = email

\* one ticket taken whatever was asked
NewAvailableOne(available, n) == available - 1

\* available_tickets - %(number_of_tickets)s
NewAvailable(available, n) == available - n

\* the store's check on app.events: available_tickets is not negative
CheckAvailable(available) == available >= 0

\* a failed statement aborts the transaction: its writes and locks are gone,
\* the session refuses statements until it is rolled back
Aborted == [status |-> "inerror", upd |-> {}, insU |-> {}, updU |-> {}, insB |-> {}]

\* COMMIT on session s: its pending writes become the committed rows
CommitEvents(s) ==
    [e \in Events |->
        IF \E u \in s.upd : u.event_id = e
        THEN [events[e] EXCEPT !.available_tickets =
                 (CHOOSE u \in s.upd : u.event_id = e).available_tickets]
        ELSE events[e]]
CommitUsers(s) == Overlay(users, s)
CommitBookings(s) == bookings \cup s.insB

Commit(c) ==
    /\ events' = CommitEvents(conn[c])
    /\ users' = CommitUsers(conn[c])
    /\ bookings' = CommitBookings(conn[c])
    /\ conn' = [conn EXCEPT ![c] = NoTx]

\* ------------------------------------------------------- the endpoints
\* every exception answered 500
PostBookingStatusAll500(e) == IF e = "none" THEN "200" ELSE "500"

\* post_booking: BookingError -> 422 with the message, anything else -> 500
PostBookingStatus(e) ==
    IF e = "none" THEN "200" ELSE IF e = "BookingError" THEN "422" ELSE "500"

\* get_event: EventError -> 422, anything else -> 500
GetEventStatus(e) ==
    IF e = "none" THEN "200"
    ELSE IF e = "EventNotFoundError" THEN "422" ELSE "500"

\* get_booking: BookingError -> 422, anything else -> 500
GetBookingStatus(e) ==
    IF e = "none" THEN "200" ELSE IF e = "BookingError" THEN "422" ELSE "500"

\* rout (GET /events): any exception -> 500
GetEventsStatus(e) == IF e = "none" THEN "200" ELSE "500"

\* the body of POST /booking did not build a CreateBooking: a ValidationError
\* (ValueErrors of the validators) is answered 422 by the framework, any
\* other exception leaves the validator unhandled and is answered 500
ValidationStatus(e) == IF e = "ValidationError" THEN "422_validation" ELSE "500"

\* create_new_user (POST /user): any exception -> 500
CreateUserStatus(e) == IF e = "none" THEN "200" ELSE "500"

\* login_user (POST /login): CredentialsError -> 401, anything else -> 500
LoginStatus(e) ==
    IF e = "none" THEN "200"
    ELSE IF e = "CredentialsError" THEN "401" ELSE "500"

\* a request arrives
Start(p) ==
    /\ pc[p] = "idle"
    /\ \/ \E e \in EventIdInputs, m \in EmailInputs, n \in TicketInputs :
            /\ op' = [op EXCEPT ![p] = "post_booking"]
            /\ req' = [req EXCEPT ![p] =
                          [event_id |-> e, first_name |-> Name(p),
                           last_name |-> Name(p), email |-> m,
                           number_of_tickets |-> n]]
            /\ pc' = [pc EXCEPT ![p] = "is_event_id"]
       \/ \E e \in EventIdInputs :
            /\ op' = [op EXCEPT ![p] = "get_event"]
            /\ req' = [req EXCEPT ![p] = [event_id |-> e]]
            /\ pc' = [pc EXCEPT ![p] = "ge_enter"]
       \/ /\ op' = [op EXCEPT ![p] = "get_events"]
          /\ req' = [req EXCEPT ![p] = <<>>]
          /\ pc' = [pc EXCEPT ![p] = "gl_enter"]
       \/ \E b \in 1..NProcs :
            /\ op' = [op EXCEPT ![p] = "get_booking"]
            /\ req' = [req EXCEPT ![p] = [booking_id |-> b]]
            /\ pc' = [pc EXCEPT ![p] = "gb_enter"]
       \/ \E m \in EmailInputs :
            /\ op' = [op EXCEPT ![p] = "create_user"]
            /\ req' = [req EXCEPT ![p] =
                          [email |-> m, password |-> "pw2",
                           first_name |-> Name(p), last_name |-> Name(p)]]
            /\ pc' = [pc EXCEPT ![p] = "cu_validate"]
       \/ \E m \in Emails, w \in {"pw", "wrong"} :
            /\ op' = [op EXCEPT ![p] = "login"]
            /\ req' = [req EXCEPT ![p] = [email |-> m, password |-> w]]
            /\ pc' = [pc EXCEPT ![p] = "lg_enter"]
    /\ UNCHANGED <<store, seqs, conn, pool, used, db, errors, exc, http, ret,
                   cur, faults, conn_of, alloc>>

\* CreateBooking.is_event_id: a value <= 0 is a ValueError, which the model
\* collects before it goes on to the next field; any other value is looked
\* up with get_event_by_id
IsEventId(p) ==
    /\ pc[p] = "is_event_id"
    /\ IF is_event_id_positive(req[p].event_id)
       THEN /\ pc' = [pc EXCEPT ![p] = "ge_enter"]
            /\ UNCHANGED errors
       ELSE /\ pc' = [pc EXCEPT ![p] = "validate"]
            /\ errors' = [errors EXCEPT ![p] = TRUE]
    /\ UNCHANGED <<store, seqs, conn, pool, used, op, req, db, exc, http, ret,
                   cur, faults, conn_of, alloc>>

\* CreateBooking.is_email and is_number_of_tickets, then the model is built
\* or the collected ValueErrors are raised as one ValidationError
Validate(p) ==
    /\ pc[p] = "validate"
    /\ LET bad == \/ errors[p]
                  \/ ~is_email(req[p].email)
                  \/ ~is_number_of_tickets(req[p].number_of_tickets)
       IN /\ errors' = [errors EXCEPT ![p] = bad]
          /\ IF bad
             THEN /\ exc' = [exc EXCEPT ![p] = "ValidationError"]
                  /\ http' = [http EXCEPT ![p] = ValidationStatus("ValidationError")]
                  /\ pc' = [pc EXCEPT ![p] = "done"]
             ELSE /\ pc' = [pc EXCEPT ![p] = "cb_enter"]
                  /\ UNCHANGED <<exc, http>>
    /\ UNCHANGED <<store, seqs, conn, pool, used, op, req, db, ret, cur,
                   faults, conn_of, alloc>>

\* ---- get_event_by_id (the validator's lookup and GET /event/{event_id})
GetEventEnter(p) ==
    /\ pc[p] = "ge_enter"
    /\ Enter(p, "ge_select", "done")
    /\ UNCHANGED <<store, seqs, local, faults>>

\* execute the SELECT, fetchone, commit
SelectThenCommit(p, rows) ==
    LET c == db[p] IN
    IF conn[c].status = "inerror"
    THEN /\ exc' = [exc EXCEPT ![p] = "DatabaseError"]
         /\ UNCHANGED <<store, conn, cur>>
    ELSE /\ cur' = [cur EXCEPT ![p] = rows]
         /\ Commit(c)
         /\ UNCHANGED exc

GetEventSelect(p) ==
    /\ pc[p] = "ge_select"
    /\ LET c == db[p]
           e == req[p].event_id
       IN SelectThenCommit(p, IF e \in Events
                              THEN {[event_id |-> e,
                                     available_tickets |-> AvailView(c, e)]}
                              ELSE {})
    /\ pc' = [pc EXCEPT ![p] = "ge_exit"]
    /\ UNCHANGED <<seqs, pool, used, op, req, db, errors, http, ret, faults,
                   conn_of, alloc>>

\* leave the with-block; raise EventNotFoundError when no row was fetched.
\* In the validator the exception is re-raised as it is.
GetEventExit(p) ==
    /\ pc[p] = "ge_exit"
    /\ ExitConn(p)
    /\ LET e == IF exc[p] # "none" THEN exc[p]
                ELSE IF cur[p] = {} THEN "EventNotFoundError" ELSE "none"
       IN /\ exc' = [exc EXCEPT ![p] = e]
          /\ IF op[p] = "get_event"
             THEN /\ http' = [http EXCEPT ![p] = GetEventStatus(e)]
                  /\ pc' = [pc EXCEPT ![p] = "done"]
             ELSE IF e # "none"
             THEN /\ http' = [http EXCEPT ![p] = ValidationStatus(e)]
                  /\ pc' = [pc EXCEPT ![p] = "done"]
             ELSE /\ pc' = [pc EXCEPT ![p] = "validate"]
                  /\ UNCHANGED http
    /\ UNCHANGED <<store, seqs, local, faults, conn_of>>

\* ---- get_booking_by_id (GET /booking/{booking_id})
GetBookingEnter(p) ==
    /\ pc[p] = "gb_enter"
    /\ Enter(p, "gb_select", "done")
    /\ UNCHANGED <<store, seqs, local, faults>>

GetBookingSelect(p) ==
    /\ pc[p] = "gb_select"
    /\ SelectThenCommit(p, {b \in BookingsView(db[p]) :
                                b.booking_id = req[p].booking_id})
    /\ pc' = [pc EXCEPT ![p] = "gb_exit"]
    /\ UNCHANGED <<seqs, pool, used, op, req, db, errors, http, ret, faults,
                   conn_of, alloc>>

\* leave the with-block; raise BookingError when no row was fetched
GetBookingExit(p) ==
    /\ pc[p] = "gb_exit"
    /\ ExitConn(p)
    /\ LET e == IF exc[p] # "none" THEN exc[p]
                ELSE IF cur[p] = {} THEN "BookingError" ELSE "none"
       IN /\ exc' = [exc EXCEPT ![p] = e]
          /\ http' = [http EXCEPT ![p] = GetBookingStatus(e)]
    /\ pc' = [pc EXCEPT ![p] = "done"]
    /\ UNCHANGED <<store, seqs, local, faults, conn_of>>

\* ---- get_event_list (GET /events)
GetEventListEnter(p) ==
    /\ pc[p] = "gl_enter"
    /\ Enter(p, "gl_select", "done")
    /\ UNCHANGED <<store, seqs, local, faults>>

GetEventListSelect(p) ==
    /\ pc[p] = "gl_select"
    /\ SelectThenCommit(p, {[event_id |-> e,
                             available_tickets |-> AvailView(db[p], e)] :
                                e \in Events})
    /\ pc' = [pc EXCEPT ![p] = "gl_exit"]
    /\ UNCHANGED <<seqs, pool, used, op, req, db, errors, http, ret, faults,
                   conn_of, alloc>>

GetEventListExit(p) ==
    /\ pc[p] = "gl_exit"
    /\ ExitConn(p)
    /\ http' = [http EXCEPT ![p] = GetEventsStatus(exc[p])]
    /\ pc' = [pc EXCEPT ![p] = "done"]
    /\ UNCHANGED <<store, seqs, local, exc, faults, conn_of>>

\* ---- create_booking
CreateBookingEnter(p) ==
    /\ pc[p] = "cb_enter"
    /\ Enter(p, "cb_update", "done")
    /\ UNCHANGED <<store, seqs, local, faults>>

\* an UPDATE without its WHERE clause: every event's row is written
UpdateEventsNoWhere(s, c, e, n) ==
    [s EXCEPT !.status = "intrans",
              !.upd = {[event_id |-> x,
                        available_tickets |->
                            NewAvailable(AvailView(c, x), n)] : x \in Events}]

\* first statement: UPDATE app.events SET available_tickets =
\* available_tickets - n WHERE event_id = e.  A result the check on the
\* table refuses raises CheckViolation, which becomes BookingError.
UpdateEvents(s, c, e, n) ==
    IF e \notin Events THEN [s EXCEPT !.status = "intrans"]
    ELSE [s EXCEPT !.status = "intrans",
                   !.upd = {u \in s.upd : u.event_id # e} \cup
                           {[event_id |-> e,
                             available_tickets |->
                                 NewAvailable(AvailView(c, e), n)]}]

CreateBookingUpdate(p) ==
    /\ pc[p] = "cb_update"
    /\ LET c == db[p]
           e == req[p].event_id
           n == req[p].number_of_tickets
       IN IF conn[c].status = "inerror"
          THEN /\ exc' = [exc EXCEPT ![p] = "DatabaseError"]
               /\ pc' = [pc EXCEPT ![p] = "cb_exit"]
               /\ UNCHANGED conn
          ELSE /\ ~RowLockedByOther(c, e)
               /\ IF e \in Events
                     /\ ~CheckAvailable(NewAvailable(AvailView(c, e), n))
                  THEN /\ conn' = [conn EXCEPT ![c] = Aborted]
                       /\ exc' = [exc EXCEPT ![p] = "BookingError"]
                       /\ pc' = [pc EXCEPT ![p] = "cb_exit"]
                  ELSE /\ conn' = [conn EXCEPT ![c] =
                                      UpdateEvents(conn[c], c, e, n)]
                       /\ pc' = [pc EXCEPT ![p] = "cb_insert"]
                       /\ UNCHANGED exc
    /\ UNCHANGED <<store, seqs, pool, used, local, db, http, faults, conn_of>>

\* second statement: INSERT INTO app.users ... ON CONFLICT ON CONSTRAINT
\* unique_email DO NOTHING.  The row a booking creates has no password.
NewUser(id, r) ==
    [user_id |-> id, email |-> r.email, first_name |-> r.first_name,
     last_name |-> r.last_name, password |-> "null", active |-> TRUE]

\* a plain INSERT, without the ON CONFLICT clause taking effect
InsertUserAlways(s, c, r) ==
    [s EXCEPT !.insU = @ \cup {NewUser(user_seq, r)}]

InsertUser(s, c, r) ==
    IF \E u \in UsersView(c) : u.email = r.email THEN s
    ELSE [s EXCEPT !.insU = @ \cup {NewUser(user_seq, r)}]

\* (select user_id from app.users where email = %(email)s)
SelectUserId(view, email) ==
    IF \E u \in view : u.email = email
    THEN (CHOOSE u \in view : u.email = email).user_id
    ELSE NULL

\* a booking row that records one ticket whatever was asked for
InsertBookingOneTicket(s, view, r) ==
    [s EXCEPT !.insB = @ \cup
        {[booking_id |-> booking_seq, event_id |-> r.event_id,
          user_id |-> SelectUserId(view, r.email),
          number_of_tickets |-> 1]}]

\* a sub-select that sees committed rows only, not the user row the same
\* transaction has just inserted
InsertBookingCommittedView(s, view, r) ==
    [s EXCEPT !.insB = @ \cup
        {[booking_id |-> booking_seq, event_id |-> r.event_id,
          user_id |-> SelectUserId(users, r.email),
          number_of_tickets |-> r.number_of_tickets]}]

\* third statement: INSERT INTO app.bookings ... RETURNING booking_id
InsertBooking(s, view, r) ==
    [s EXCEPT !.insB = @ \cup
        {[booking_id |-> booking_seq, event_id |-> r.event_id,
          user_id |-> SelectUserId(view, r.email),
          number_of_tickets |-> r.number_of_tickets]}]

CreateBookingInsert(p) ==
    /\ pc[p] = "cb_insert"
    /\ LET c == db[p]
           r == req[p]
           s1 == InsertUser(conn[c], c, r)
           s2 == InsertBooking(s1, Overlay(users, s1), r)
       IN /\ ~EmailBusy(c, r.email)
          /\ ~UserRowLockedByOther(c, r.email)
          /\ conn' = [conn EXCEPT ![c] = s2]
          /\ alloc' = [alloc EXCEPT ![p] =
                          [user_id |-> IF s1 = conn[c] THEN NULL ELSE user_seq,
                           booking_id |-> booking_seq]]
    /\ user_seq' = user_seq + 1
    /\ booking_seq' = booking_seq + 1
    /\ cur' = [cur EXCEPT ![p] = {[booking_id |-> booking_seq]}]
    /\ pc' = [pc EXCEPT ![p] = "cb_fetch"]
    /\ UNCHANGED <<store, pool, used, op, req, db, errors, exc, http, ret,
                   faults, conn_of>>

\* booking = db.cursor.fetchone(); db.cursor.connection.commit()
CreateBookingCommit(p) ==
    /\ pc[p] = "cb_fetch"
    /\ ret' = [ret EXCEPT ![p] = (CHOOSE b \in cur[p] : TRUE).booking_id]
    /\ Commit(db[p])
    /\ pc' = [pc EXCEPT ![p] = "cb_exit"]
    /\ UNCHANGED <<seqs, pool, used, op, req, db, errors, exc, http, cur,
                   faults, conn_of, alloc>>

\* leave the with-block, then return booking['booking_id'] or let the
\* exception reach post_booking
CreateBookingExit(p) ==
    /\ pc[p] = "cb_exit"
    /\ ExitConn(p)
    /\ http' = [http EXCEPT ![p] = PostBookingStatus(exc[p])]
    /\ pc' = [pc EXCEPT ![p] = "done"]
    /\ UNCHANGED <<store, seqs, local, exc, faults, conn_of>>

\* ---- infrastructure failures inside create_booking's with-block
\* execute raises an error other than CheckViolation: the store has aborted
\* the transaction
FailExecute(p) ==
    /\ pc[p] \in {"cb_update", "cb_insert"}
    /\ faults < MaxFaults
    /\ conn[db[p]].status # "inerror"
    /\ conn' = [conn EXCEPT ![db[p]] = Aborted]
    /\ exc' = [exc EXCEPT ![p] = "DatabaseError"]
    /\ pc' = [pc EXCEPT ![p] = "cb_exit"]
    /\ faults' = faults + 1
    /\ UNCHANGED <<store, seqs, pool, used, local, db, http, conn_of>>

\* fetchone raises: the transaction stays open with its writes pending
FailFetch(p) ==
    /\ pc[p] = "cb_fetch"
    /\ faults < MaxFaults
    /\ exc' = [exc EXCEPT ![p] = "Exception"]
    /\ pc' = [pc EXCEPT ![p] = "cb_exit"]
    /\ faults' = faults + 1
    /\ UNCHANGED <<store, seqs, conn, pool, used, local, db, http, conn_of>>

\* commit raises: nothing was committed, the transaction is aborted
FailCommit(p) ==
    /\ pc[p] = "cb_fetch"
    /\ faults < MaxFaults
    /\ conn' = [conn EXCEPT ![db[p]] = Aborted]
    /\ exc' = [exc EXCEPT ![p] = "DatabaseError"]
    /\ ret' = [ret EXCEPT ![p] = (CHOOSE b \in cur[p] : TRUE).booking_id]
    /\ pc' = [pc EXCEPT ![p] = "cb_exit"]
    /\ faults' = faults + 1
    /\ UNCHANGED <<store, seqs, pool, used, op, req, errors, cur, alloc, db,
                   http, conn_of>>

\* ---- create_user (POST /user)
\* pwd_context.hash; verify(password, h) holds exactly when h is its hash
hash(password) ==
    IF password = "pw" THEN "hash"
    ELSE IF password = "pw2" THEN "hash2" ELSE "hashx"

\* CreateUser.is_email (is_password: the model sends valid passwords only),
\* then new_user.password = pwd_context.hash(new_user.password)
ValidateUser(p) ==
    /\ pc[p] = "cu_validate"
    /\ IF is_email(req[p].email)
       THEN /\ req' = [req EXCEPT ![p].password = hash(@)]
            /\ pc' = [pc EXCEPT ![p] = "cu_enter"]
            /\ UNCHANGED <<errors, exc, http>>
       ELSE /\ errors' = [errors EXCEPT ![p] = TRUE]
            /\ exc' = [exc EXCEPT ![p] = "ValidationError"]
            /\ http' = [http EXCEPT ![p] = ValidationStatus("ValidationError")]
            /\ pc' = [pc EXCEPT ![p] = "done"]
            /\ UNCHANGED req
    /\ UNCHANGED <<store, seqs, conn, pool, used, op, db, ret, cur, faults,
                   conn_of, alloc>>

CreateUserEnter(p) ==
    /\ pc[p] = "cu_enter"
    /\ Enter(p, "cu_upsert", "done")
    /\ UNCHANGED <<store, seqs, local, faults>>

\* the row INSERT INTO app.users(email, first_name, last_name, password)
\* adds when the email is new
NewRegisteredUser(id, r) ==
    [user_id |-> id, email |-> r.email, first_name |-> r.first_name,
     last_name |-> r.last_name, password |-> r.password, active |-> TRUE]

\* an update that leaves the stored password as it is
UpdatedUserKeepsPassword(u, r) ==
    [u EXCEPT !.email = r.email, !.first_name = r.first_name,
              !.last_name = r.last_name]

\* ... ON CONFLICT ON CONSTRAINT unique_email do update set email,
\* first_name, last_name, password = excluded.*
UpdatedUser(u, r) ==
    [u EXCEPT !.email = r.email, !.first_name = r.first_name,
              !.last_name = r.last_name, !.password = r.password]

\* an INSERT that takes no notice of the row already there
UpsertUserAlwaysInsert(s, c, r) ==
    [s EXCEPT !.status = "intrans",
              !.insU = @ \cup {NewRegisteredUser(user_seq, r)}]

UpsertUser(s, c, r) ==
    IF \E u \in UsersView(c) : u.email = r.email
    THEN LET u == CHOOSE x \in UsersView(c) : x.email = r.email
         IN IF u \in s.insU
            THEN [s EXCEPT !.status = "intrans",
                           !.insU = (@ \ {u}) \cup {UpdatedUser(u, r)}]
            ELSE [s EXCEPT !.status = "intrans",
                           !.updU = {v \in @ : v.user_id # u.user_id}
                                       \cup {UpdatedUser(u, r)}]
    ELSE [s EXCEPT !.status = "intrans",
                   !.insU = @ \cup {NewRegisteredUser(user_seq, r)}]

\* db.cursor.execute(INSERT ... RETURNING user_id)
CreateUserUpsert(p) ==
    /\ pc[p] = "cu_upsert"
    /\ LET c == db[p]
           r == req[p]
       IN IF conn[c].status = "inerror"
          THEN /\ exc' = [exc EXCEPT ![p] = "DatabaseError"]
               /\ pc' = [pc EXCEPT ![p] = "cu_exit"]
               /\ UNCHANGED <<conn, user_seq, cur, alloc>>
          ELSE /\ ~EmailBusy(c, r.email)
               /\ ~UserRowLockedByOther(c, r.email)
               /\ LET s1 == UpsertUser(conn[c], c, r)
                      id == SelectUserId(Overlay(users, s1), r.email)
                  IN /\ conn' = [conn EXCEPT ![c] = s1]
                     /\ cur' = [cur EXCEPT ![p] = {[user_id |-> id]}]
                     /\ alloc' = [alloc EXCEPT ![p].user_id =
                                     IF s1.insU = conn[c].insU
                                     THEN NULL ELSE user_seq]
               /\ user_seq' = user_seq + 1
               /\ pc' = [pc EXCEPT ![p] = "cu_fetch"]
               /\ UNCHANGED exc
    /\ UNCHANGED <<store, booking_seq, pool, used, op, req, db, errors, http,
                   ret, faults, conn_of>>

\* user = db.cursor.fetchone(); db.cursor.connection.commit()
CreateUserCommit(p) ==
    /\ pc[p] = "cu_fetch"
    /\ ret' = [ret EXCEPT ![p] = (CHOOSE u \in cur[p] : TRUE).user_id]
    /\ Commit(db[p])
    /\ pc' = [pc EXCEPT ![p] = "cu_exit"]
    /\ UNCHANGED <<seqs, pool, used, op, req, db, errors, exc, http, cur,
                   faults, conn_of, alloc>>

\* leave the with-block, return user['user_id']
CreateUserExit(p) ==
    /\ pc[p] = "cu_exit"
    /\ ExitConn(p)
    /\ http' = [http EXCEPT ![p] = CreateUserStatus(exc[p])]
    /\ pc' = [pc EXCEPT ![p] = "done"]
    /\ UNCHANGED <<store, seqs, local, exc, faults, conn_of>>

\* ---- login (POST /login): get_user_by_email, then the password check
LoginEnter(p) ==
    /\ pc[p] = "lg_enter"
    /\ Enter(p, "lg_select", "done")
    /\ UNCHANGED <<store, seqs, local, faults>>

LoginSelect(p) ==
    /\ pc[p] = "lg_select"
    /\ SelectThenCommit(p, {u \in UsersView(db[p]) :
                                u.email = req[p].email /\ u.active})
    /\ pc' = [pc EXCEPT ![p] = "lg_exit"]
    /\ UNCHANGED <<seqs, pool, used, op, req, db, errors, http, ret, faults,
                   conn_of, alloc>>

\* get_user_by_email returns None or User(**user), which refuses a row whose
\* password is null; login raises CredentialsError for no user or a
\* password that does not verify
LoginCheck(p) ==
    IF exc[p] # "none" THEN exc[p]
    ELSE IF cur[p] = {} THEN "CredentialsError"
    ELSE LET u == CHOOSE x \in cur[p] : TRUE
         IN IF u.password = "null" THEN "ValidationError"
            ELSE IF hash(req[p].password) # u.password
            THEN "CredentialsError" ELSE "none"

LoginExit(p) ==
    /\ pc[p] = "lg_exit"
    /\ ExitConn(p)
    /\ exc' = [exc EXCEPT ![p] = LoginCheck(p)]
    /\ http' = [http EXCEPT ![p] = LoginStatus(LoginCheck(p))]
    /\ pc' = [pc EXCEPT ![p] = "done"]
    /\ UNCHANGED <<store, seqs, local, faults, conn_of>>

\* ---- failures of the context manager itself
EnterPcs == {"ge_enter", "gb_enter", "gl_enter", "cb_enter", "cu_enter",
             "lg_enter"}
ExitPcs == {"ge_exit", "gb_exit", "gl_exit", "cb_exit", "cu_exit", "lg_exit"}

\* __enter__: POOL.getconn() has handed out a connection and
\* connection.cursor() raises; __exit__ is not run for a failed __enter__
FailCursor(p) ==
    /\ pc[p] \in EnterPcs
    /\ faults < MaxFaults
    /\ ~PoolExhausted
    /\ LET c == GetConn IN
       /\ pool' = IF pool # <<>> THEN Front(pool) ELSE pool
       /\ used' = used \cup {c}
       /\ conn' = IF conn[c].status = "closed"
                  THEN [conn EXCEPT ![c] = NoTx] ELSE conn
       /\ conn_of' = [conn_of EXCEPT ![p] = c]
    /\ exc' = [exc EXCEPT ![p] = "CursorError"]
    /\ http' = [http EXCEPT ![p] = "500"]
    /\ pc' = [pc EXCEPT ![p] = "done"]
    /\ faults' = faults + 1
    /\ UNCHANGED <<store, seqs, local, db>>

\* __exit__: self.cursor.close() raises, POOL.putconn is not reached; the
\* session stays as it is, with its transaction if one is open
FailClose(p) ==
    /\ pc[p] \in ExitPcs
    /\ faults < MaxFaults
    /\ exc' = [exc EXCEPT ![p] = "CloseError"]
    /\ http' = [http EXCEPT ![p] = "500"]
    /\ db' = [db EXCEPT ![p] = 0]
    /\ pc' = [pc EXCEPT ![p] = "done"]
    /\ faults' = faults + 1
    /\ UNCHANGED <<store, seqs, conn, pool, used, local, conn_of>>

Next ==
    \E p \in Procs :
        \/ Start(p)
        \/ IsEventId(p)
        \/ Validate(p)
        \/ GetEventEnter(p)
        \/ GetEventSelect(p)
        \/ GetEventExit(p)
        \/ GetBookingEnter(p)
        \/ GetBookingSelect(p)
        \/ GetBookingExit(p)
        \/ GetEventListEnter(p)
        \/ GetEventListSelect(p)
        \/ GetEventListExit(p)
        \/ CreateBookingEnter(p)
        \/ CreateBookingUpdate(p)
        \/ CreateBookingInsert(p)
        \/ CreateBookingCommit(p)
        \/ CreateBookingExit(p)
        \/ FailExecute(p)
        \/ FailFetch(p)
        \/ FailCommit(p)
        \/ ValidateUser(p)
        \/ CreateUserEnter(p)
        \/ CreateUserUpsert(p)
        \/ CreateUserCommit(p)
        \/ CreateUserExit(p)
        \/ LoginEnter(p)
        \/ LoginSelect(p)
        \/ LoginExit(p)
        \/ FailCursor(p)
        \/ FailClose(p)

Spec == Init /\ [][Next]_vars

\* ---- a loaded process: Held of the pool's connections are already
\* borrowed and are not given back while the handlers of Procs run (their
\* borrowers have not ended, or have ended without POOL.putconn)
Held == (minconn + 1)..maxconn

InitBusy ==
    /\ events = [e \in Events |->
                    [total_ticket_amount |-> EventTotal,
                     available_tickets |-> EventTotal]]
    /\ users = InitUsers
    /\ bookings = {}
    /\ user_seq = 2
    /\ booking_seq = 1
    /\ conn = [c \in ConnIds |->
                  IF c <= minconn \/ c \in Held THEN NoTx ELSE Closed]
    /\ pool = [i \in 1..minconn |-> i]
    /\ used = Held
    /\ pc = [p \in Procs |-> "idle"]
    /\ op = [p \in Procs |-> "none"]
    /\ req = [p \in Procs |-> <<>>]
    /\ db = [p \in Procs |-> 0]
    /\ errors = [p \in Procs |-> FALSE]
    /\ exc = [p \in Procs |-> "none"]
    /\ http = [p \in Procs |-> "none"]
    /\ ret = [p \in Procs |-> NULL]
    /\ cur = [p \in Procs |-> {}]
    /\ faults = 0
    /\ conn_of = [p \in Procs |-> 0]
    /\ alloc = [p \in Procs |-> [user_id |-> NULL, booking_id |-> NULL]]

SpecBusy == InitBusy /\ [][Next]_vars

\* =============================================================== claims
BookingsOf(e) == {b \in bookings : b.event_id = e}

\* a POST /booking that has been answered
Answered(p) == op[p] = "post_booking" /\ pc[p] = "done"

\* ... whose request passed the validators, so that create_booking ran
Booked(p) == Answered(p) /\ exc[p] \notin {"ValidationError", "EventNotFoundError"}

\* ... and met no infrastructure failure
Undisturbed(p) ==
    Booked(p) /\ exc[p] \notin {"PoolError", "DatabaseError", "Exception",
                              "CursorError", "CloseError"}

\* tickets of event e committed by handlers other than p and q
TakenByOthers(e, p, q) ==
    SumTickets({b \in BookingsOf(e) : b.booking_id \notin {ret[p], ret[q]}})

\* C1: in every committed state every event has
\* 0 <= available_tickets <= total_ticket_amount
C1_AvailableInRange ==
    \A e \in Events :
        /\ 0 <= events[e].available_tickets
        /\ events[e].available_tickets <= events[e].total_ticket_amount

\* two bookings of one event are committed and the event is sold out
C1_Witness ==
    \E e \in Events :
        /\ events[e].available_tickets = 0
        /\ Cardinality(BookingsOf(e)) = 2

\* C2: in every committed state, for every event, the tickets of its
\* committed bookings plus its available_tickets equal its total
C2_TicketsConserved ==
    \A e \in Events :
        SumTickets(BookingsOf(e)) + events[e].available_tickets
            = events[e].total_ticket_amount

\* bookings of two different events are committed
C2_Witness ==
    \E b1 \in bookings, b2 \in bookings : b1.event_id # b2.event_id

\* C3: of two answered bookings of the same event that met no
\* infrastructure failure, each fitting what is left alone but not both
\* together, exactly one got 200 with its booking_id and the other got
\* BookingError (422)
C3_ExactlyOneWins ==
    \A p \in Procs, q \in Procs :
        ( /\ p # q
          /\ Undisturbed(p) /\ Undisturbed(q)
          /\ req[p].event_id = req[q].event_id
          /\ LET e == req[p].event_id
                 left == events[e].total_ticket_amount - TakenByOthers(e, p, q)
             IN /\ req[p].number_of_tickets <= left
                /\ req[q].number_of_tickets <= left
                /\ req[p].number_of_tickets + req[q].number_of_tickets > left )
        => \E w \in {p, q} : \E l \in {p, q} \ {w} :
              /\ exc[w] = "none" /\ http[w] = "200"
              /\ \E b \in bookings : b.booking_id = ret[w]
              /\ exc[l] = "BookingError" /\ http[l] = "422"
              /\ \A b \in bookings : b.booking_id # alloc[l].booking_id

\* both asked for every ticket of the same event; one won, one was refused
C3_Witness ==
    \E p \in Procs, q \in Procs :
        /\ p # q /\ Undisturbed(p) /\ Undisturbed(q)
        /\ req[p].event_id = req[q].event_id
        /\ req[p].number_of_tickets = EventTotal
        /\ req[q].number_of_tickets = EventTotal
        /\ http[p] = "200" /\ http[q] = "422"

\* C4: whenever a reader (get_event_by_id, get_event_list,
\* get_booking_by_id) or another create_booking is about to run its
\* statement, the rows it sees are consistent: for every event the tickets
\* of the bookings it sees plus the available_tickets it sees are the total
SeesConsistent(c) ==
    \A e \in Events :
        SumTickets({b \in BookingsView(c) : b.event_id = e}) + AvailView(c, e)
            = events[e].total_ticket_amount

C4_AtomicVisibility ==
    \A p \in Procs :
        pc[p] \in {"ge_select", "gb_select", "gl_select", "cb_update"}
            => SeesConsistent(db[p])

\* a reader is about to select while a booking of the event it asks for has
\* decremented but not yet inserted or committed
C4_Witness ==
    \E p \in Procs, q \in Procs :
        /\ pc[p] = "ge_select" /\ op[p] = "get_event"
        /\ pc[q] = "cb_insert"
        /\ req[p].event_id = req[q].event_id

\* C5: a create_booking whose UPDATE finds available_tickets < n ends in
\* BookingError, is answered 422, and none of its steps changes a
\* committed row; it never inserts a user or a booking
C5_InsufficientInventory ==
    [][\A p \in Procs :
         /\ ( /\ pc[p] = "cb_update" /\ pc'[p] # "cb_update"
              /\ exc'[p] # "DatabaseError"
              /\ events[req[p].event_id].available_tickets
                     < req[p].number_of_tickets )
            => exc'[p] = "BookingError" /\ pc'[p] = "cb_exit"
         /\ ( /\ pc'[p] # pc[p] /\ exc'[p] = "BookingError"
              /\ op[p] = "post_booking" )
            => /\ UNCHANGED store
               /\ alloc'[p] = [user_id |-> NULL, booking_id |-> NULL]
               /\ pc'[p] = "done" => http'[p] = "422"
      ]_vars

\* a booking that asked for more than was left has been refused
C5_Witness ==
    \E p \in Procs :
        /\ Answered(p) /\ exc[p] = "BookingError" /\ http[p] = "422"
        /\ events[req[p].event_id].available_tickets < req[p].number_of_tickets
        /\ events[req[p].event_id].available_tickets > 0

\* C6: committed rows change only in the commit step of a create_user or
\* of a create_booking that has not failed, and then by exactly that booking's decrement, its
\* booking row and at most its user row; what a failed create_booking
\* wrote is never committed, also not by a later user of its connection
CommitsOwn(p) ==
    /\ pc[p] = "cb_fetch" /\ pc'[p] = "cb_exit"
    /\ exc[p] = "none" /\ exc'[p] = "none"
    /\ LET r == req[p] IN
       /\ events' = [events EXCEPT ![r.event_id].available_tickets =
                        @ - r.number_of_tickets]
       /\ \A b \in bookings : b.booking_id # alloc[p].booking_id
       /\ bookings' = bookings \cup
             {[booking_id |-> alloc[p].booking_id, event_id |-> r.event_id,
               user_id |-> SelectUserId(users', r.email),
               number_of_tickets |-> r.number_of_tickets]}
       /\ users \subseteq users'
       /\ \A u \in users' \ users :
             u.user_id = alloc[p].user_id /\ u.email = r.email

\* the commit step of a create_user, which touches app.users only
CommitsRegistration(p) ==
    /\ op[p] = "create_user"
    /\ pc[p] = "cu_fetch" /\ pc'[p] = "cu_exit"
    /\ UNCHANGED <<events, bookings>>

NothingOfFailed ==
    \A p \in Procs :
        (op[p] = "post_booking" /\ exc[p] \notin {"none", "CloseError"}) =>
            /\ \A b \in bookings :
                  alloc[p].booking_id = NULL \/ b.booking_id # alloc[p].booking_id
            /\ \A u \in users :
                  alloc[p].user_id = NULL \/ u.user_id # alloc[p].user_id

C6_NoPartialCommit ==
    [][ /\ (store' # store =>
               \E p \in Procs : CommitsOwn(p) \/ CommitsRegistration(p))
        /\ NothingOfFailed'
      ]_vars

\* a create_booking failed with its transaction open, and a later
\* create_booking borrowed the same connection and committed
C6_Witness ==
    \E p \in Procs, q \in Procs :
        /\ Answered(p) /\ exc[p] = "Exception"
        /\ Answered(q) /\ http[q] = "200"
        /\ conn_of[p] = conn_of[q]
        /\ alloc[p].booking_id # NULL
        /\ alloc[p].booking_id < alloc[q].booking_id

\* C7: two answered bookings with the same email, new to app.users, that
\* met no infrastructure failure and whose events had tickets enough for
\* both: both got 200, one user row has that email, and both booking rows
\* carry its user_id
EnoughForBoth(p, q) ==
    LET ep == req[p].event_id
        eq == req[q].event_id
        np == req[p].number_of_tickets
        nq == req[q].number_of_tickets
        left(e) == events[e].total_ticket_amount - TakenByOthers(e, p, q)
    IN IF ep = eq THEN np + nq <= left(ep)
       ELSE np <= left(ep) /\ nq <= left(eq)

C7_OneUserForSameNewEmail ==
    \A p \in Procs, q \in Procs :
        ( /\ p # q
          /\ Undisturbed(p) /\ Undisturbed(q)
          /\ req[p].email = req[q].email
          /\ \A u \in InitUsers : u.email # req[p].email
          /\ EnoughForBoth(p, q) )
        => /\ http[p] = "200" /\ http[q] = "200"
           /\ Cardinality({u \in users : u.email = req[p].email}) = 1
           /\ \E u \in users, bp \in bookings, bq \in bookings :
                 /\ u.email = req[p].email
                 /\ bp.booking_id = ret[p] /\ bq.booking_id = ret[q]
                 /\ bp.booking_id # bq.booking_id
                 /\ bp.user_id = u.user_id /\ bq.user_id = u.user_id

\* both booked different events under the same new email on two connections;
\* the one whose INSERT ran second created no user row
C7_Witness ==
    \E p \in Procs, q \in Procs :
        /\ p # q /\ Undisturbed(p) /\ Undisturbed(q)
        /\ req[p].email = "e2" /\ req[q].email = "e2"
        /\ req[p].event_id # req[q].event_id
        /\ http[p] = "200" /\ http[q] = "200"
        /\ conn_of[p] # conn_of[q]
        /\ alloc[p].user_id # NULL /\ alloc[q].user_id = NULL
        /\ alloc[p].booking_id < alloc[q].booking_id

\* C8: every answered, otherwise valid booking whose (positive) event_id
\* names no event ended in EventNotFoundError, answered as a business-rule rejection
\* (neither the validation answer nor the 500 of an infrastructure error),
\* and it drew no user or booking id
C8_EventNotFoundIsBusinessRejection ==
    \A p \in Procs :
        ( /\ Answered(p)
          /\ req[p].event_id > 0 /\ req[p].event_id \notin Events
          /\ is_email(req[p].email)
          /\ is_number_of_tickets(req[p].number_of_tickets) ) =>
            /\ exc[p] = "EventNotFoundError"
            /\ http[p] \notin {"422_validation", "500"}
            /\ alloc[p] = [user_id |-> NULL, booking_id |-> NULL]

\* C9: a booking request with number_of_tickets <= 0 never borrows a
\* connection, and is answered as a validation error
C9_InvalidRequestBeforeStore ==
    \A p \in Procs :
        (op[p] = "post_booking" /\ pc[p] # "idle"
            /\ req[p].number_of_tickets <= 0) =>
            /\ conn_of[p] = 0
            /\ pc[p] = "done" => http[p] = "422_validation"

\* C10: the step that commits a create_booking whose email has a user row
\* leaves app.users as it is and gives the new booking that row's user_id;
\* with no such row it adds exactly one row, with the request's email and
\* names; no other step of a POST /booking changes app.users
C10_ExistingUserUntouched ==
    [][\A p \in Procs :
         (op[p] = "post_booking" /\ pc'[p] # pc[p]) =>
            IF pc[p] = "cb_fetch" /\ exc'[p] = "none"
            THEN LET r == req[p]
                     b == CHOOSE x \in bookings' \ bookings : TRUE
                 IN /\ Cardinality(bookings' \ bookings) = 1
                    /\ IF \E u \in users : u.email = r.email
                       THEN /\ users' = users
                            /\ \E u \in users :
                                  u.email = r.email /\ b.user_id = u.user_id
                       ELSE /\ users' = users \cup
                                  {NewUser(alloc[p].user_id, r)}
                            /\ b.user_id = alloc[p].user_id
                            /\ alloc[p].user_id # NULL
                            /\ \A u \in users : u.user_id # alloc[p].user_id
            ELSE users' = users
      ]_vars

\* a booking under the registered email e1 is committed and the registered
\* row still carries its own names, not the request's
C10_Witness ==
    \E p \in Procs :
        /\ Answered(p) /\ http[p] = "200" /\ req[p].email = "e1"
        /\ InitUsers \subseteq users
        /\ \A u \in InitUsers : u.first_name # req[p].first_name
        /\ \E b \in bookings : b.booking_id = ret[p] /\ b.user_id = 1

\* C11: a create_booking for n > 0 tickets whose UPDATE finds
\* available_tickets >= n (equality included) is not refused; if no step of
\* it fails, its commit step lowers that event's available_tickets by
\* exactly n, leaves the other events alone, and adds exactly one booking
\* row, with the request's event_id, the id of the user row with the
\* request's email and number_of_tickets = n; the booking_id it returns is
\* that row's, no earlier row's and no other handler's; the answer is 200
C11_BookingSucceeds ==
    [][\A p \in Procs :
         LET r == req[p] IN
         /\ ( /\ pc[p] = "cb_update" /\ pc'[p] # "cb_update"
              /\ exc'[p] # "DatabaseError"
              /\ events[r.event_id].available_tickets >= r.number_of_tickets )
            => exc'[p] = "none" /\ pc'[p] = "cb_insert"
         /\ ( /\ pc[p] = "cb_fetch" /\ pc'[p] = "cb_exit" /\ exc'[p] = "none" )
            => /\ events' = [events EXCEPT ![r.event_id].available_tickets =
                                 @ - r.number_of_tickets]
               /\ Cardinality(bookings' \ bookings) = 1
               /\ bookings \subseteq bookings'
               /\ LET b == CHOOSE x \in bookings' \ bookings : TRUE
                  IN /\ b.event_id = r.event_id
                     /\ b.number_of_tickets = r.number_of_tickets
                     /\ b.user_id # NULL
                     /\ \E u \in users' :
                           u.email = r.email /\ u.user_id = b.user_id
                     /\ ret'[p] = b.booking_id
                     /\ \A x \in bookings : x.booking_id # b.booking_id
                     /\ \A q \in Procs \ {p} :
                           op[q] = "post_booking" => ret[q] # b.booking_id
         /\ ( /\ pc[p] = "cb_exit" /\ pc'[p] = "done"
              /\ exc[p] = "none" /\ exc'[p] = "none" )
            => http'[p] = "200"
      ]_vars

\* a booking that asked for exactly what was left is committed and answered
\* 200 after an earlier booking of the same event
C11_Witness ==
    \E p \in Procs, q \in Procs :
        /\ p # q /\ Answered(p) /\ Answered(q)
        /\ http[p] = "200" /\ http[q] = "200"
        /\ req[p].event_id = req[q].event_id
        /\ req[q].number_of_tickets = 1
        /\ req[p].number_of_tickets = EventTotal - 1
        /\ ret[q] < ret[p]
        /\ events[req[p].event_id].available_tickets = 0
        /\ \E b \in bookings :
              b.booking_id = ret[p] /\ b.number_of_tickets = EventTotal - 1

\* C12: in every committed state, whatever the interleaving of
\* create_booking and create_user calls, no two rows of app.users have the
\* same email
C12_OneUserPerEmail ==
    \A u \in users, v \in users : u.email = v.email => u = v

\* a booking and a registration under the same new email have both been
\* answered 200, and the booking's user row is the registered one
C12_Witness ==
    \E p \in Procs, q \in Procs :
        /\ op[p] = "post_booking" /\ op[q] = "create_user"
        /\ pc[p] = "done" /\ pc[q] = "done"
        /\ http[p] = "200" /\ http[q] = "200"
        /\ req[p].email = "e2" /\ req[q].email = "e2"
        /\ \E u \in users, b \in bookings :
              /\ u.email = "e2" /\ u.user_id = ret[q]
              /\ b.booking_id = ret[p] /\ b.user_id = u.user_id
\* C13: every connection borrowed by DatabaseConnection is returned on
\* every path: the borrowed connections are exactly those of the handlers
\* that are inside their with-block, so once an operation has ended, by
\* success or by any failure, its connection is no longer borrowed
C13_BorrowedIsReturned ==
    used = {db[p] : p \in Procs} \ {0}
\* C14: never more than maxconn connections are borrowed; a booking
\* request that comes to borrow a connection (for the validator's lookup or
\* for create_booking) while maxconn are borrowed is not made to wait: its
\* next step ends it with PoolError, answered 500 and not as a business-rule
\* rejection, and changes no event, user or booking row and no session
C14_ExhaustionIsInfrastructureError ==
    [][ /\ Cardinality(used) <= maxconn /\ Cardinality(used') <= maxconn
        /\ \A p \in Procs :
              ( /\ op[p] = "post_booking"
                /\ pc[p] \in {"ge_enter", "cb_enter"}
                /\ Cardinality(used) = maxconn ) =>
                 /\ ENABLED (GetEventEnter(p) \/ CreateBookingEnter(p))
                 /\ pc'[p] # pc[p] =>
                       /\ pc'[p] = "done"
                       /\ exc'[p] = "PoolError"
                       /\ http'[p] = "500"
                       /\ UNCHANGED <<store, seqs, conn, used, pool>>
      ]_vars

\* with every connection borrowed, a valid booking request was answered
\* 500 with PoolError when create_booking came to borrow one
C14_Witness ==
    \E p \in Procs :
        /\ Answered(p) /\ exc[p] = "PoolError" /\ http[p] = "500"
        /\ errors[p] = FALSE
        /\ req[p].event_id \in Events
        /\ cur[p] # {}
        /\ Cardinality(used) = maxconn
\* C15: in every committed state every booking row's event_id names an
\* event row and its user_id is not null and names a user row; the booking
\* row of an answered request carries the id of the user row that has the
\* request's email, and the request's event_id
C15_BookingReferences ==
    /\ \A b \in bookings :
          /\ b.event_id \in Events
          /\ b.user_id # NULL
          /\ \E u \in users : u.user_id = b.user_id
    /\ \A p \in Procs :
          (Answered(p) /\ http[p] = "200") =>
              \E b \in bookings, u \in users :
                  /\ b.booking_id = ret[p]
                  /\ b.event_id = req[p].event_id
                  /\ u.email = req[p].email
                  /\ b.user_id = u.user_id

\* a committed booking refers to the user row its own transaction created
C15_Witness ==
    \E p \in Procs, b \in bookings, u \in users :
        /\ Answered(p) /\ http[p] = "200"
        /\ b.booking_id = ret[p]
        /\ alloc[p].user_id # NULL
        /\ u.user_id = alloc[p].user_id
        /\ b.user_id = u.user_id
        /\ u.email = req[p].email
\* C16: an event's available_tickets changes only in the step that commits
\* a create_booking for that event, and a booking row appears only in such
\* a step; no step of get_event_by_id, get_event_list, get_booking_by_id,
\* create_user or login, and no step of a create_booking that has failed or
\* fails, changes an event's available_tickets or a booking row
CommitsBookingOf(p, e) ==
    /\ op[p] = "post_booking"
    /\ pc[p] = "cb_fetch" /\ pc'[p] = "cb_exit"
    /\ exc[p] = "none" /\ exc'[p] = "none"
    /\ req[p].event_id = e

C16_OnlyBookingCommitWrites ==
    [][ /\ \A e \in Events :
              events'[e] # events[e] => \E p \in Procs : CommitsBookingOf(p, e)
        /\ \A b \in bookings' \ bookings :
              \E p \in Procs : CommitsBookingOf(p, b.event_id)
        /\ bookings \subseteq bookings'
        /\ \A p \in Procs :
              ( /\ pc'[p] # pc[p]
                /\ \/ op'[p] \in {"get_event", "get_events", "get_booking",
                                  "create_user", "login"}
                   \/ exc'[p] # "none" )
              => UNCHANGED <<events, bookings>>
      ]_vars

\* a registration, and a booking of one event, have been committed; the
\* other event still has all its tickets and there is one booking row
C16_Witness ==
    \E p \in Procs, q \in Procs, e \in Events :
        /\ op[q] = "create_user" /\ pc[q] = "done" /\ http[q] = "200"
        /\ Answered(p) /\ http[p] = "200" /\ req[p].event_id # e
        /\ events[e].available_tickets = EventTotal
        /\ events[req[p].event_id].available_tickets
               = EventTotal - req[p].number_of_tickets
        /\ Cardinality(bookings) = 1
\* C17: concurrent create_booking and create_user calls never deadlock and
\* leave every connection free: while a call has not ended some handler can
\* take a step (no set of calls waits for ever for one another's locks),
\* and once every call has ended, by committing or by failing, no
\* connection is borrowed any more
C17_NoDeadlockAllFree ==
    /\ (\E p \in Procs : pc[p] # "done") => ENABLED Next
    /\ (\A p \in Procs : pc[p] = "done") => used = {}
\* C18: the step that commits a create_user whose email has a user row
\* (made by a registration or by a booking) adds no row: the row keeps its
\* user_id and email and gets the request's first_name, last_name and
\* (hashed) password, that user_id is returned, and every booking row stays
\* as it is, attached to the same user; with no such row the step adds
\* exactly one row, with a new user_id, which is returned
C18_RegistrationUpserts ==
    [][\A p \in Procs :
         ( /\ op[p] = "create_user"
           /\ pc[p] = "cu_fetch" /\ pc'[p] = "cu_exit" /\ exc'[p] = "none" ) =>
            LET r == req[p] IN
            /\ UNCHANGED <<events, bookings>>
            /\ IF \E u \in users : u.email = r.email
               THEN LET u == CHOOSE x \in users : x.email = r.email
                        v == [u EXCEPT !.first_name = r.first_name,
                                       !.last_name = r.last_name,
                                       !.password = r.password]
                    IN /\ users' = (users \ {u}) \cup {v}
                       /\ Cardinality(users') = Cardinality(users)
                       /\ ret'[p] = u.user_id
                       /\ \A b \in bookings' :
                             b.user_id = u.user_id =>
                                \E w \in users' : /\ w.user_id = b.user_id
                                                  /\ w.email = r.email
               ELSE /\ users' = users \cup {NewRegisteredUser(ret'[p], r)}
                    /\ \A u \in users : u.user_id # ret'[p]
                    /\ ret'[p] # NULL
      ]_vars

\* a booking created the user row of a new email; a later registration with
\* that email was answered with the same user_id, the row now carries the
\* registration's password and names, and the booking still refers to it
C18_Witness ==
    \E p \in Procs, q \in Procs :
        /\ Answered(p) /\ http[p] = "200" /\ alloc[p].user_id # NULL
        /\ op[q] = "create_user" /\ pc[q] = "done" /\ http[q] = "200"
        /\ req[q].email = req[p].email
        /\ ret[q] = alloc[p].user_id
        /\ \E u \in users, b \in bookings :
              /\ u.user_id = ret[q]
              /\ u.password = hash("pw2") /\ u.first_name = Name(q)
              /\ b.booking_id = ret[p] /\ b.user_id = u.user_id
====
